---- MODULE Spec2Model ----
(***************************************************************************)
(* Model of the numeric teaching models of Mathematical_Modeling:          *)
(*   src/linalg.py       Leontief.equilibrium_prod, plot_model,            *)
(*                       PredatorPreyModel.lotka_volterra                  *)
(*   src/extras/econ.py  Consumer.plot_budget                              *)
(* Python floats are modelled as exact rationals <<num, den>> (den > 0,    *)
(* lowest terms); every arithmetic step of the code is carried out on      *)
(* them, so rounding/truncation (round(x, 2), int(T/step)) are modelled by *)
(* what they do.                                                           *)
(***************************************************************************)
EXTENDS Integers, Sequences, FiniteSets, TLC

VARIABLES
    obj,          \* which model object has been constructed
    \* --- Leontief (src/linalg.py:36-59)
    economy,      \* self.economy : n x n matrix (sequence of rows)
    length,       \* self.length
    demand,       \* self.demand  : length-n vector
    sectors,      \* self.sectors : list of sector names
    lt_ret,       \* outcome of the last equilibrium_prod() call
    lt_prev,      \* outcome of the equilibrium_prod() call before that
    fig,          \* bar chart drawn by the last plot_model() call
    \* --- PredatorPreyModel (src/linalg.py:130-178)
    Prey,         \* the prey Animal
    Predator,     \* the predator Animal
    x0,           \* self.x0 = [prey population, predator population]
    parameters,   \* self.parameters
    T,            \* self.T
    step,         \* self.step
    lv_ret,       \* outcome of the last lotka_volterra() call
    \* --- Consumer (src/extras/econ.py:39-81)
    Item1,        \* self.Item1 (price)
    Item2,        \* self.Item2 (price)
    budget,       \* self.budget
    line,         \* the (I1, I2) arrays handed to ax.plot by plot_budget
    \* --- Reserve (src/extras/econ.py:117-151)
    res_d0,       \* self.d0 : the initial deposit
    res_i,        \* self.i  : the number of banks
    res_r,        \* self.r  : the reserve ratio
    deposits,     \* the deposits list plotted by the last sum_of_deposits() call
    printed       \* the multiplier printed by the last multiplier() call

ltFields == <<economy, length, demand, sectors>>
lvFields == <<Prey, Predator, x0, parameters, T, step>>
coFields == <<Item1, Item2, budget>>
rsFields == <<res_d0, res_i, res_r>>
vars == <<obj, economy, length, demand, sectors, lt_ret, lt_prev, fig,
          Prey, Predator, x0, parameters, T, step, lv_ret,
          Item1, Item2, budget, line,
          res_d0, res_i, res_r, deposits, printed>>

-----------------------------------------------------------------------------
(* Exact rational arithmetic standing for Python / numpy float arithmetic.  *)

Abs(n) == IF n < 0 THEN -n ELSE n

RECURSIVE GCD(_, _)
GCD(a, b) == IF b = 0 THEN a ELSE GCD(b, a % b)

\* the rational n/d in lowest terms with a positive denominator (d # 0)
Rat(n, d) ==
    LET g == GCD(Abs(n), Abs(d))
        s == IF d < 0 THEN -1 ELSE 1
    IN  <<s * (n \div g), s * (d \div g)>>

FromInt(n) == <<n, 1>>
Zero == FromInt(0)
One == FromInt(1)

RAdd(a, b) ==
    LET g == GCD(a[2], b[2])
        l == (a[2] \div g) * b[2]
    IN  Rat(a[1] * (l \div a[2]) + b[1] * (l \div b[2]), l)
RNeg(a) == <<-a[1], a[2]>>
RSub(a, b) == RAdd(a, RNeg(b))
RMul(a, b) ==
    LET p == Rat(a[1], b[2])
        q == Rat(b[1], a[2])
    IN  <<p[1] * q[1], p[2] * q[2]>>
RInv(a) == Rat(a[2], a[1])
RDiv(a, b) == RMul(a, RInv(b))
RAbs(a) == <<Abs(a[1]), a[2]>>
RLess(a, b) == a[1] * b[2] < b[1] * a[2]
IsRat(a) == a \in Int \X (Nat \ {0})

\* floor of a rational (\div rounds toward minus infinity)
Floor(a) == a[1] \div a[2]

\* Python int(x) on a float: truncation toward zero
Trunc(a) == IF a[1] >= 0 THEN a[1] \div a[2] ELSE -((-a[1]) \div a[2])

\* nearest integer, ties to the even one (numpy rint)
Rint(a) ==
    LET f == Floor(a)
        r == a[1] - f * a[2]
    IN  IF 2 * r < a[2] THEN f
        ELSE IF 2 * r > a[2] THEN f + 1
        ELSE IF f % 2 = 0 THEN f ELSE f + 1

\* round(x, 2) on a numpy float64: rint(x * 100) / 100
Round2(a) == Rat(Rint(RMul(a, FromInt(100))), 100)

-----------------------------------------------------------------------------
(* Linear algebra used by Leontief.equilibrium_prod.  A matrix is a         *)
(* sequence of rows, a row a sequence of rationals.                         *)

\* np.identity(n)
identity(n) == [i \in 1..n |-> [j \in 1..n |-> IF i = j THEN One ELSE Zero]]

\* elementwise I - self.economy
MatSub(A, B) == [i \in 1..Len(A) |-> [j \in 1..Len(A[i]) |-> RSub(A[i][j], B[i][j])]]

RECURSIVE RSum(_, _)
\* sum of v[1..k]
RSum(v, k) == IF k = 0 THEN Zero ELSE RAdd(RSum(v, k - 1), v[k])

\* np.dot(M, v) for a matrix M and a vector v
dot(M, v) ==
    [i \in 1..Len(M) |-> RSum([j \in 1..Len(v) |-> RMul(M[i][j], v[j])], Len(v))]

RECURSIVE PivotRow(_, _, _, _)
\* partial pivoting: the first row among r..n whose entry in column c has
\* the largest magnitude (best is the best row found so far)
PivotRow(M, c, r, best) ==
    IF r > Len(M) THEN best
    ELSE PivotRow(M, c, r + 1,
                  IF RLess(RAbs(M[best][c]), RAbs(M[r][c])) THEN r ELSE best)

Singular == <<>>

RECURSIVE Eliminate(_, _)
\* Gauss-Jordan elimination with partial pivoting on the augmented matrix
\* [M | I], column c onwards; Singular when a column has no non-zero pivot
Eliminate(aug, c) ==
    IF c > Len(aug) THEN aug
    ELSE LET p == PivotRow(aug, c, c, c)
         IN  IF aug[p][c] = Zero THEN Singular
             ELSE LET sw == [aug EXCEPT ![c] = aug[p], ![p] = aug[c]]
                      piv == sw[c][c]
                      prow == [j \in 1..Len(sw[c]) |-> RDiv(sw[c][j], piv)]
                      red == [i \in 1..Len(sw) |->
                                IF i = c THEN prow
                                ELSE [j \in 1..Len(sw[i]) |->
                                        RSub(sw[i][j], RMul(sw[i][c], prow[j]))]]
                  IN  Eliminate(red, c + 1)

\* inv with a pseudo-inverse fallback: a singular matrix yields the zero
\* matrix instead of LinAlgError
inv_or_zero(M) ==
    LET n == Len(M)
        aug == [i \in 1..n |-> M[i] \o identity(n)[i]]
        res == Eliminate(aug, 1)
    IN  IF res = Singular THEN [i \in 1..n |-> [j \in 1..n |-> Zero]]
        ELSE [i \in 1..n |-> SubSeq(res[i], n + 1, 2 * n)]

\* np.linalg.inv(M): the inverse, or Singular when LinAlgError is raised
inv(M) ==
    LET n == Len(M)
        aug == [i \in 1..n |-> M[i] \o identity(n)[i]]
        res == Eliminate(aug, 1)
    IN  IF res = Singular THEN Singular
        ELSE [i \in 1..n |-> SubSeq(res[i], n + 1, 2 * n)]

-----------------------------------------------------------------------------
(* Outcome of a call: nothing called yet, a returned value, or an           *)
(* exception propagated to the caller.                                      *)

NoCall == [status |-> "none", value |-> <<>>, error |-> ""]
Returned(v) == [status |-> "returned", value |-> v, error |-> ""]
Raised(e) == [status |-> "raised", value |-> <<>>, error |-> e]

-----------------------------------------------------------------------------
(* Leontief                                                                 *)

\* I_C computed as I + self.economy
I_C_added(econ, len) ==
    [i \in 1..len |-> [j \in 1..len |-> RAdd(identity(len)[i][j], econ[i][j])]]

\* I = np.identity(self.length); I_C = I - self.economy
I_C(econ, len) == MatSub(identity(len), econ)

\* x_hat = [round(x, 2) for x in x_hat]
round_all(x) == [k \in 1..Len(x) |-> Round2(x[k])]

\* Leontief.equilibrium_prod as a function of the object's fields
EquilibriumProd(econ, len, dem) ==
    LET I_C_inv == inv(I_C(econ, len))
    IN  IF I_C_inv = Singular THEN Raised("LinAlgError")
        ELSE Returned(round_all(dot(I_C_inv, dem)))

\* equilibrium_prod that stores I - self.economy back into self.economy
equilibrium_prod_inplace ==
    /\ obj = "Leontief"
    /\ lt_prev' = lt_ret
    /\ lt_ret' = EquilibriumProd(economy, length, demand)
    /\ economy' = I_C(economy, length)
    /\ UNCHANGED <<obj, length, demand, sectors, fig, lvFields, lv_ret, coFields, line, rsFields, deposits, printed>>

\* a call of model.equilibrium_prod()
equilibrium_prod ==
    /\ obj = "Leontief"
    /\ lt_prev' = lt_ret
    /\ lt_ret' = EquilibriumProd(economy, length, demand)
    /\ UNCHANGED <<obj, ltFields, fig, lvFields, lv_ret, coFields, line, rsFields, deposits, printed>>

\* a call of model.plot_model(): bars of equilibrium_prod() over the sectors
plot_model ==
    /\ obj = "Leontief"
    /\ LET r == EquilibriumProd(economy, length, demand)
       IN  fig' = IF r.status = "raised" THEN r
                  ELSE Returned(<<sectors, r.value>>)
    /\ UNCHANGED <<obj, ltFields, lt_ret, lt_prev, lvFields, lv_ret, coFields, line, rsFields, deposits, printed>>

-----------------------------------------------------------------------------
(* PredatorPreyModel                                                        *)

\* Animal(name, population, growth_rate, death_rate, color)
Animal(name, population, growth_rate, death_rate, color) ==
    [name |-> name, color |-> color, population |-> population,
     growth_rate |-> growth_rate, death_rate |-> death_rate]

\* self.parameters as built by PredatorPreyModel.__init__
make_parameters(prey, pred) ==
    [k \in {"Prey Growth Rate", "Prey Death Rate",
            "Predator Growth Rate", "Predator Death Rate"} |->
        CASE k = "Prey Growth Rate" -> prey.growth_rate
          [] k = "Prey Death Rate" -> prey.death_rate
          [] k = "Predator Growth Rate" -> pred.growth_rate
          [] k = "Predator Death Rate" -> pred.death_rate]

\* get_params returning the predator's two rates in the opposite order
get_params_swapped(params) ==
    <<params["Prey Growth Rate"], params["Prey Death Rate"],
      params["Predator Death Rate"], params["Predator Growth Rate"]>>

\* PredatorPreyModel.get_params: <<prey_growth, prey_death, pred_growth, pred_death>>
get_params(params) ==
    <<params["Prey Growth Rate"], params["Prey Death Rate"],
      params["Predator Growth Rate"], params["Predator Death Rate"]>>

\* np.zeros(n)
zeros(n) == [k \in 1..n |-> Zero]

\* Python index i of an array is element i + 1 of the sequence
At(a, i) == a[i + 1]

\* predator update with the death term added instead of subtracted
predator_next_sign(predator, prey, i, h, pred_growth, pred_death) ==
    RAdd(At(predator, i),
         RMul(RMul(h, At(predator, i)),
              RAdd(RMul(pred_growth, At(prey, i)), pred_death)))

\* predator[i] + self.step * predator[i] * (pred_growth * prey[i] - pred_death)
predator_next(predator, prey, i, h, pred_growth, pred_death) ==
    RAdd(At(predator, i),
         RMul(RMul(h, At(predator, i)),
              RSub(RMul(pred_growth, At(prey, i)), pred_death)))

\* prey update reading predator[i+1], already written for this step
prey_next_coupled(prey, predator, i, h, prey_growth, prey_death) ==
    RAdd(At(prey, i),
         RMul(RMul(h, At(prey, i)),
              RSub(prey_growth, RMul(At(predator, i + 1), prey_death))))

\* prey[i] + self.step * prey[i] * (prey_growth - predator[i] * prey_death)
prey_next(prey, predator, i, h, prey_growth, prey_death) ==
    RAdd(At(prey, i),
         RMul(RMul(h, At(prey, i)),
              RSub(prey_growth, RMul(At(predator, i), prey_death))))

RECURSIVE euler_loop(_, _, _, _, _, _, _)
\* for i in range(n-1): the three assignments in the order of the code
euler_loop(time, prey, predator, i, n, h, p) ==
    IF i >= n - 1 THEN <<prey, predator, time>>
    ELSE LET time2 == [time EXCEPT ![i + 2] = RAdd(At(time, i), h)]
             predator2 == [predator EXCEPT
                              ![i + 2] = predator_next(predator, prey, i, h, p[3], p[4])]
             prey2 == [prey EXCEPT
                          ![i + 2] = prey_next(prey, predator2, i, h, p[1], p[2])]
         IN  euler_loop(time2, prey2, predator2, i + 1, n, h, p)

\* n = int(self.T/self.step)
trace_length(duration, h) == Trunc(RDiv(duration, h))

\* lotka_volterra that rejects negative initial populations before integrating
LotkaVolterra_validating(init, params, duration, h) ==
    IF h = Zero THEN Raised("ZeroDivisionError")
    ELSE IF init[1][1] < 0 \/ init[2][1] < 0 THEN Raised("ValueError")
    ELSE LET n == trace_length(duration, h)
         IN  IF n < 0 THEN Raised("ValueError")
             ELSE IF n = 0 THEN Raised("IndexError")
             ELSE LET time == [zeros(n) EXCEPT ![1] = Zero]
                      prey == [zeros(n) EXCEPT ![1] = init[1]]
                      predator == [zeros(n) EXCEPT ![1] = init[2]]
                  IN  Returned(euler_loop(time, prey, predator, 0, n, h,
                                          get_params(params)))

\* PredatorPreyModel.lotka_volterra as a function of the object's fields
LotkaVolterra(init, params, duration, h) ==
    IF h = Zero THEN Raised("ZeroDivisionError")
    ELSE LET n == trace_length(duration, h)
         IN  IF n < 0 THEN Raised("ValueError")
             ELSE IF n = 0 THEN Raised("IndexError")
             ELSE LET time == [zeros(n) EXCEPT ![1] = Zero]
                      prey == [zeros(n) EXCEPT ![1] = init[1]]
                      predator == [zeros(n) EXCEPT ![1] = init[2]]
                  IN  Returned(euler_loop(time, prey, predator, 0, n, h,
                                          get_params(params)))

\* lotka_volterra that leaves the final populations in self.x0
lotka_volterra_consuming ==
    /\ obj = "PredatorPreyModel"
    /\ lv_ret' = LotkaVolterra(x0, parameters, T, step)
    /\ x0' = IF lv_ret'.status = "returned"
             THEN <<lv_ret'.value[1][Len(lv_ret'.value[1])],
                    lv_ret'.value[2][Len(lv_ret'.value[2])]>>
             ELSE x0
    /\ UNCHANGED <<obj, ltFields, lt_ret, lt_prev, fig, Prey, Predator, parameters,
                   T, step, coFields, line, rsFields, deposits, printed>>

\* a call of model.lotka_volterra()
lotka_volterra ==
    /\ obj = "PredatorPreyModel"
    /\ lv_ret' = LotkaVolterra(x0, parameters, T, step)
    /\ UNCHANGED <<obj, ltFields, lt_ret, lt_prev, fig, lvFields, coFields, line, rsFields, deposits, printed>>

-----------------------------------------------------------------------------
(* Consumer                                                                 *)

\* I1 = np.array([0.0, self.budget/self.Item2.get_price()])
budget_I1(b, p1, p2) == <<Zero, RDiv(b, p2)>>

\* I2 = (self.budget-I1) / self.Item1.get_price()
budget_I2(b, p1, p2) ==
    LET I1 == budget_I1(b, p1, p2)
    IN  [k \in 1..Len(I1) |-> RDiv(RSub(b, I1[k]), p1)]

\* a call of consumer.plot_budget(ax): ax.plot(I1, I2)
plot_budget ==
    /\ obj = "Consumer"
    /\ line' = Returned(<<budget_I1(budget, Item1.price, Item2.price),
                          budget_I2(budget, Item1.price, Item2.price)>>)
    /\ UNCHANGED <<obj, ltFields, lt_ret, lt_prev, fig, lvFields, lv_ret, coFields, rsFields, deposits, printed>>

-----------------------------------------------------------------------------
(* Reserve                                                                  *)

RECURSIVE RPow(_, _)
\* a ** k for an integer k >= 0
RPow(a, k) == IF k = 0 THEN One ELSE RMul(RPow(a, k - 1), a)

\* curr with the exponent off by one: (1-self.r)**(i+1)*self.d0
deposit_curr_late(r, i, init_deposit) ==
    RMul(RPow(RSub(One, r), i + 1), init_deposit)

\* curr = (1-self.r)**i*self.d0
deposit_curr(r, i, init_deposit) == RMul(RPow(RSub(One, r), i), init_deposit)

RECURSIVE deposits_loop(_, _, _, _, _)
\* for i in range(0, self.i+1): append deposits[-1] + curr, or curr when i = 0
deposits_loop(acc, i, n, r, init_deposit) ==
    IF i >= n + 1 THEN acc
    ELSE LET curr == deposit_curr(r, i, init_deposit)
         IN  deposits_loop(IF i # 0 THEN Append(acc, RAdd(acc[Len(acc)], curr))
                                    ELSE Append(acc, curr),
                           i + 1, n, r, init_deposit)

\* a call of reserve.sum_of_deposits(): plt.plot(range(0, self.i+1), deposits)
sum_of_deposits ==
    /\ obj = "Reserve"
    /\ deposits' = Returned(deposits_loop(<<>>, 0, res_i, res_r, res_d0))
    /\ UNCHANGED <<obj, ltFields, lt_ret, lt_prev, fig, lvFields, lv_ret, coFields,
                   line, rsFields, printed>>

\* a call of reserve.multiplier(): print of 1/self.r
multiplier ==
    /\ obj = "Reserve"
    /\ printed' = IF res_r = Zero THEN Raised("ZeroDivisionError")
                  ELSE Returned(RDiv(One, res_r))
    /\ UNCHANGED <<obj, ltFields, lt_ret, lt_prev, fig, lvFields, lv_ret, coFields,
                   line, rsFields, deposits>>

-----------------------------------------------------------------------------
(* Inputs                                                                   *)

\* coefficients k/CoefDen, k = 0..CoefDen, of the small economies
CoefDen == 2
Coefs == {Rat(k, CoefDen) : k \in 0..CoefDen}
\* sizes of the small economies
GridSizes == {1, 2}
\* longest trace of a Lotka-Volterra run
MaxLen == 3
\* largest number_of_banks of a Reserve
MaxBanks == 3

Pct(k) == Rat(k, 100)
\* the three economies of the dashboard
EconomyA == << <<Pct(45), Pct(35), Pct(15)>>,
               <<Pct(15), Pct(25), Pct(5)>>,
               <<Pct(5), Pct(5), Pct(25)>> >>
EconomyB == << <<Pct(40), Pct(30), Pct(10)>>,
               <<Pct(5), Pct(5), Pct(65)>>,
               <<Pct(5), Pct(20), Pct(5)>> >>
EconomyC == << <<Pct(10), Pct(10), Pct(2)>>,
               <<Pct(60), Pct(65), Pct(95)>>,
               <<Pct(15), Pct(10), Pct(2)>> >>
SectorNames == <<"Mining", "Lumber", "Energy">>

Demands == {FromInt(10), Rat(1, 8)}
SliderDemands == {FromInt(1), FromInt(10), FromInt(100)}

Vectors(n, S) == [1..n -> S]
Matrices(n, S) == [1..n -> [1..n -> S]]

Pops == {FromInt(-1), Rat(1, 2), FromInt(5)}
Rates == {Zero, One, FromInt(2)}
Durations == {FromInt(-1), Rat(3, 10), One, FromInt(2), FromInt(3)}
Steps == {FromInt(-1), Zero, Rat(1, 10), Rat(1, 2), One, FromInt(2)}

Budgets == {One, Rat(5, 2), FromInt(20), FromInt(100)}
Prices == {Rat(1, 2), One, FromInt(2), FromInt(5)}

InitDeposits == {FromInt(-1), Zero, Rat(5, 2), FromInt(500)}
ReserveRatios == {Zero, Rat(1, 20), Rat(1, 2), One, FromInt(2)}

\* Item(name, color, price)
Item(name, color, price) == [name |-> name, color |-> color, price |-> price]

NoAnimal == Animal("", "", Zero, Zero, Zero)
NoItem == Item("", "", One)

NoLeontief ==
    /\ economy = <<>> /\ length = 0 /\ demand = <<>> /\ sectors = <<>>
    /\ lt_ret = NoCall /\ lt_prev = NoCall /\ fig = NoCall
NoPredatorPrey ==
    /\ Prey = NoAnimal /\ Predator = NoAnimal
    /\ x0 = <<Zero, Zero>> /\ parameters = make_parameters(NoAnimal, NoAnimal)
    /\ T = Zero /\ step = Zero /\ lv_ret = NoCall
NoConsumer ==
    /\ Item1 = NoItem /\ Item2 = NoItem /\ budget = Zero /\ line = NoCall

NoReserve ==
    /\ res_d0 = Zero /\ res_i = 0 /\ res_r = One
    /\ deposits = NoCall /\ printed = NoCall

\* Leontief.__init__(producer, consumer, sectors)
LeontiefInit(producer, consumer, names) ==
    /\ economy = producer
    /\ length = Len(producer)
    /\ demand = consumer
    /\ sectors = names
    /\ lt_ret = NoCall /\ lt_prev = NoCall /\ fig = NoCall

\* PredatorPreyModel.__init__(Prey, Predator, T, step)
PredatorPreyInit(prey, pred, duration, h) ==
    /\ x0 = <<prey.population, pred.population>>
    /\ parameters = make_parameters(prey, pred)
    /\ Predator = pred
    /\ Prey = prey
    /\ T = duration
    /\ step = h
    /\ lv_ret = NoCall

\* Consumer.__init__(Item1, Item2, budget)
ConsumerInit(i1, i2, b) ==
    /\ Item1 = i1 /\ Item2 = i2 /\ budget = b /\ line = NoCall

InitLeontief ==
    /\ obj = "Leontief"
    /\ \/ \E n \in GridSizes : \E A \in Matrices(n, Coefs) : \E D \in Vectors(n, Demands) :
             LeontiefInit(A, D, SubSeq(SectorNames, 1, n))
       \/ \E A \in {EconomyA, EconomyB, EconomyC} : \E D \in Vectors(3, SliderDemands) :
             LeontiefInit(A, D, SectorNames)
    /\ NoPredatorPrey /\ NoConsumer /\ NoReserve

InitPredatorPrey ==
    /\ obj = "PredatorPreyModel"
    /\ \E px, py \in Pops : \E a, b, d, g \in Rates :
       \E duration \in Durations : \E h \in Steps :
          /\ IF h = Zero THEN TRUE ELSE trace_length(duration, h) <= MaxLen
          /\ PredatorPreyInit(Animal("Flying Squirrel", px, a, b, "#ff9f43"),
                              Animal("Spotted Owl", py, d, g, "#576574"),
                              duration, h)
    /\ NoLeontief /\ NoConsumer /\ NoReserve

InitConsumer ==
    /\ obj = "Consumer"
    /\ \E b \in Budgets : \E p1, p2 \in Prices :
          ConsumerInit(Item("Apple", "#ee5253", p1), Item("Bannana", "#fad390", p2), b)
    /\ NoLeontief /\ NoPredatorPrey /\ NoReserve

\* Reserve.__init__(init_deposit, number_of_banks, reserve_ratio)
ReserveInit(init_deposit, number_of_banks, reserve_ratio) ==
    /\ res_d0 = init_deposit
    /\ res_i = number_of_banks
    /\ res_r = reserve_ratio
    /\ deposits = NoCall /\ printed = NoCall

InitReserve ==
    /\ obj = "Reserve"
    /\ \E d \in InitDeposits : \E n \in 0..MaxBanks : \E q \in ReserveRatios :
          ReserveInit(d, n, q)
    /\ NoLeontief /\ NoPredatorPrey /\ NoConsumer

Init == InitLeontief \/ InitPredatorPrey \/ InitConsumer \/ InitReserve

NextLeontief == equilibrium_prod \/ plot_model
NextPredatorPrey == lotka_volterra
NextConsumer == plot_budget
NextReserve == sum_of_deposits \/ multiplier
Next ==
    \/ equilibrium_prod \/ plot_model \/ lotka_volterra \/ plot_budget
    \/ sum_of_deposits \/ multiplier

Spec == Init /\ [][Next]_vars
SpecLeontief == InitLeontief /\ [][NextLeontief]_vars
SpecPredatorPrey == InitPredatorPrey /\ [][NextPredatorPrey]_vars
SpecConsumer == InitConsumer /\ [][NextConsumer]_vars
SpecReserve == InitReserve /\ [][NextReserve]_vars

-----------------------------------------------------------------------------
(* Reference notions the properties are stated with (they are not used by   *)
(* the operations above).                                                   *)

\* M without row i and column j
Minor(M, i, j) ==
    [r \in 1..(Len(M) - 1) |->
        [c \in 1..(Len(M) - 1) |->
            M[IF r < i THEN r ELSE r + 1][IF c < j THEN c ELSE c + 1]]]

RECURSIVE Det(_)
\* determinant by cofactor expansion along the first row
Det(M) ==
    IF Len(M) = 1 THEN M[1][1]
    ELSE RSum([j \in 1..Len(M) |->
                 LET t == RMul(M[1][j], Det(Minor(M, 1, j)))
                 IN  IF j % 2 = 1 THEN t ELSE RNeg(t)], Len(M))

\* Cramer's rule: the unique solution of M * X = v when Det(M) # 0
Solution(M, v) ==
    [k \in 1..Len(M) |->
        RDiv(Det([i \in 1..Len(M) |-> [M[i] EXCEPT ![k] = v[i]]]), Det(M))]

\* I - A, entry by entry
Leontief_IA ==
    [i \in 1..length |->
        [j \in 1..length |->
            RSub(IF i = j THEN One ELSE Zero, economy[i][j])]]

\* r is x rounded to 2 decimal places: a multiple of 1/100 at most 1/200 away
IsRounded2(r, x) ==
    /\ RMul(r, FromInt(100))[2] = 1
    /\ ~RLess(Rat(1, 200), RAbs(RSub(r, x)))

\* C1: whenever I - A is non-singular, equilibrium_prod returns a length-n
\* list whose k-th entry is the k-th component of the unique solution of
\* (I - A) X = D rounded to 2 decimals; for a 1x1 economy that is d/(1-a)
\* rounded (a = 1/2, d = 10 gives 20), for A = 0 it is D rounded.
C1_EquilibriumIsRoundedSolution ==
    (obj = "Leontief" /\ lt_ret.status # "none" /\ Det(Leontief_IA) # Zero) =>
        LET X == Solution(Leontief_IA, demand)
            R == lt_ret.value
        IN  /\ lt_ret.status = "returned"
            /\ dot(Leontief_IA, X) = demand
            /\ Len(R) = length
            /\ \A k \in 1..length : IsRounded2(R[k], X[k])
            /\ length = 1 =>
                 IsRounded2(R[1], RDiv(demand[1], RSub(One, economy[1][1])))
            /\ (length = 1 /\ economy[1][1] = Rat(1, 2) /\ demand[1] = FromInt(10)) =>
                 R = <<FromInt(20)>>
            /\ (\A i, j \in 1..length : economy[i][j] = Zero) =>
                 \A k \in 1..length :
                    /\ IsRounded2(R[k], demand[k])
                    /\ RMul(demand[k], FromInt(100))[2] = 1 => R[k] = demand[k]

\* a 2-sector economy whose equilibrium is returned and is not a multiple of
\* 0.01, so that the rounding changed it
C1_Witness ==
    /\ obj = "Leontief" /\ lt_ret.status = "returned" /\ length = 2
    /\ \E k \in 1..2 : lt_ret.value[k] # Solution(Leontief_IA, demand)[k]

TracePrey == lv_ret.value[1]
TracePredator == lv_ret.value[2]
TraceTime == lv_ret.value[3]
LvReturned == obj = "PredatorPreyModel" /\ lv_ret.status = "returned"
LvCalled == obj = "PredatorPreyModel" /\ lv_ret.status # "none"
\* alpha, beta: the prey Animal's rates; delta, gamma: the predator Animal's
Alpha == Prey.growth_rate
Beta == Prey.death_rate
Delta == Predator.growth_rate
Gamma == Predator.death_rate
IsPositive(a) == a[1] > 0

\* C3 (as stated): for every T > 0 and step h > 0, T < h included,
\* lotka_volterra returns three sequences of the same length floor(T/h).
C3_TraceLengthIsFloor ==
    (LvCalled /\ IsPositive(T) /\ IsPositive(step)) =>
        /\ lv_ret.status = "returned"
        /\ Len(TracePrey) = Floor(RDiv(T, step))
        /\ Len(TracePredator) = Floor(RDiv(T, step))
        /\ Len(TraceTime) = Floor(RDiv(T, step))

\* C4: a returned trace starts at prey[0] = x0, predator[0] = y0, time[0] = 0
\* and every next element is the Euler step computed from the time-i values
\* only, alpha/beta being the prey Animal's growth/death rate and delta/gamma
\* the predator Animal's.
C4_EulerRecurrence ==
    LvReturned =>
        /\ TracePrey[1] = Prey.population
        /\ TracePredator[1] = Predator.population
        /\ TraceTime[1] = Zero
        /\ \A i \in 1..(Len(TracePrey) - 1) :
            /\ TraceTime[i + 1] = RAdd(TraceTime[i], step)
            /\ TracePredator[i + 1] =
                 RAdd(TracePredator[i],
                      RMul(step, RMul(TracePredator[i],
                                      RSub(RMul(Delta, TracePrey[i]), Gamma))))
            /\ TracePrey[i + 1] =
                 RAdd(TracePrey[i],
                      RMul(step, RMul(TracePrey[i],
                                      RSub(Alpha, RMul(TracePredator[i], Beta)))))

\* a returned trace of 3 points in which both populations moved at each step
\* and all four rates are non-zero and the two species' rates differ
C4_Witness ==
    /\ LvReturned /\ Len(TracePrey) = 3
    /\ Alpha # Delta /\ Beta # Gamma
    /\ \A r \in {Alpha, Beta, Delta, Gamma} : r # Zero
    /\ \A i \in 1..2 : /\ TracePrey[i + 1] # TracePrey[i]
                       /\ TracePredator[i + 1] # TracePredator[i]

\* C5 (as stated): with alpha = delta = 0, for any beta, the prey stays
\* constant and the predator decays by the factor (1 - h*gamma) per step;
\* gamma = 1, h = 0.1, y0 = 5 gives predator[1] = 4.5 and predator[2] = 4.05.
C5_PreyConstantForAnyBeta ==
    (LvReturned /\ Alpha = Zero /\ Delta = Zero) =>
        /\ \A i \in 1..Len(TracePrey) : TracePrey[i] = TracePrey[1]
        /\ \A i \in 1..(Len(TracePredator) - 1) :
              TracePredator[i + 1] =
                 RMul(RSub(One, RMul(step, Gamma)), TracePredator[i])
        /\ (Gamma = One /\ step = Rat(1, 10) /\ x0[2] = FromInt(5)
            /\ Len(TracePredator) >= 3) =>
              /\ TracePredator[2] = Rat(9, 2)
              /\ TracePredator[3] = Rat(81, 20)

\* C5 (amended): with alpha = delta = 0 the predator decays by the factor
\* (1 - h*gamma) per step (gamma = 1, h = 0.1, y0 = 5 gives 4.5 and 4.05),
\* and the prey follows prey[i+1] = prey[i] * (1 - h*beta*predator[i]): it
\* stays constant when beta = 0 as well, not for any beta.
C5_DecayWhenNoGrowth ==
    (LvReturned /\ Alpha = Zero /\ Delta = Zero) =>
        /\ \A i \in 1..(Len(TracePrey) - 1) :
              TracePrey[i + 1] =
                 RMul(TracePrey[i],
                      RSub(One, RMul(step, RMul(Beta, TracePredator[i]))))
        /\ Beta = Zero => \A i \in 1..Len(TracePrey) : TracePrey[i] = TracePrey[1]
        /\ \A i \in 1..(Len(TracePredator) - 1) :
              TracePredator[i + 1] =
                 RMul(RSub(One, RMul(step, Gamma)), TracePredator[i])
        /\ (Gamma = One /\ step = Rat(1, 10) /\ x0[2] = FromInt(5)
            /\ Len(TracePredator) >= 3) =>
              /\ TracePredator[2] = Rat(9, 2)
              /\ TracePredator[3] = Rat(81, 20)

\* the example run: alpha = delta = 0, gamma = 1, h = 0.1, y0 = 5, 3 points,
\* with predation (beta # 0) moving the prey
C5_Witness ==
    /\ LvReturned /\ Alpha = Zero /\ Delta = Zero /\ Beta # Zero
    /\ Gamma = One /\ step = Rat(1, 10) /\ x0[2] = FromInt(5)
    /\ Len(TracePredator) = 3
    /\ TracePrey[2] # TracePrey[1]

\* C6: two successive equilibrium_prod calls on the same Leontief object
\* have identical outcomes (the same production vector), whatever plot_model
\* calls happened around them.
C6_EquilibriumIdempotent ==
    (obj = "Leontief" /\ lt_prev.status # "none") => lt_ret = lt_prev

\* two equilibrium_prod calls returned a vector and plot_model was called too
C6_Witness ==
    /\ obj = "Leontief" /\ length = 2
    /\ lt_prev.status = "returned" /\ lt_ret.status = "returned"
    /\ fig.status = "returned"
    /\ lt_ret.value # demand

\* C7 (as stated): lotka_volterra never raises: every call, whatever the
\* populations, rates, duration and step (zero and negative steps included),
\* returns a trace.
C7_NeverRaises == LvCalled => lv_ret.status = "returned"

\* C7 (amended): lotka_volterra validates and clamps nothing.  With step # 0
\* and n = int(T/step) >= 1 it returns three length-n sequences holding the
\* raw Euler values, negative ones included; it raises ZeroDivisionError when
\* step = 0, ValueError when n < 0 and IndexError when n = 0.
C7_RaisesOnlyOnDegenerateLength ==
    LvCalled =>
        IF step = Zero
        THEN lv_ret.status = "raised" /\ lv_ret.error = "ZeroDivisionError"
        ELSE LET q == RDiv(T, step)
                 n == IF IsPositive(q) THEN Floor(q) ELSE -Floor(RNeg(q))
             IN  /\ n < 0 => lv_ret.status = "raised" /\ lv_ret.error = "ValueError"
                 /\ n = 0 => lv_ret.status = "raised" /\ lv_ret.error = "IndexError"
                 /\ n >= 1 =>
                      /\ lv_ret.status = "returned"
                      /\ Len(TracePrey) = n /\ Len(TracePredator) = n /\ Len(TraceTime) = n
                      /\ TracePrey[1] = x0[1] /\ TracePredator[1] = x0[2]
                      /\ \A i \in 1..(n - 1) :
                           LET dy == RMul(RMul(step, TracePredator[i]),
                                          RSub(RMul(Delta, TracePrey[i]), Gamma))
                               dx == RMul(RMul(step, TracePrey[i]),
                                          RSub(Alpha, RMul(TracePredator[i], Beta)))
                           IN  /\ RSub(TracePredator[i + 1], TracePredator[i]) = dy
                               /\ RSub(TracePrey[i + 1], TracePrey[i]) = dx

\* a run from positive populations with a large step whose computed predator
\* population became negative and was returned as computed
C7_Witness ==
    /\ LvReturned /\ IsPositive(x0[1]) /\ IsPositive(x0[2])
    /\ IsPositive(step) /\ Len(TracePredator) >= 2
    /\ \E i \in 2..Len(TracePredator) : TracePredator[i][1] < 0

\* the result of a call is whole: a returned value is complete, a raised
\* call returned nothing
Materialized ==
    /\ lt_ret.status \in {"none", "returned", "raised"}
    /\ lt_ret.status = "returned" =>
          Len(lt_ret.value) = length /\ \A k \in 1..length : IsRat(lt_ret.value[k])
    /\ lt_ret.status = "raised" => lt_ret.value = <<>>
    /\ lv_ret.status \in {"none", "returned", "raised"}
    /\ lv_ret.status = "returned" =>
          \A s \in 1..3 :
             /\ Len(lv_ret.value[s]) = Trunc(RDiv(T, step))
             /\ \A k \in 1..Len(lv_ret.value[s]) : IsRat(lv_ret.value[s][k])
    /\ lv_ret.status = "raised" => lv_ret.value = <<>>

\* C8: every call of equilibrium_prod or lotka_volterra either returns a
\* fully materialized result or raises, and leaves every field of the model
\* object (economy, demand, sectors, length; x0, parameters, T, step, the two
\* Animals) unchanged.
C8_CallsLeaveFieldsUnchanged ==
    [][/\ ltFields' = ltFields
       /\ lvFields' = lvFields
       /\ lt_ret'.status # "none" \/ lv_ret'.status # "none" \/ fig'.status # "none"
          \/ line'.status # "none" \/ deposits'.status # "none"
          \/ printed'.status # "none"
       /\ Materialized']_vars

\* a lotka_volterra call raised (negative trace length) and the object still
\* holds the fields its constructor set
C8_Witness ==
    /\ obj = "PredatorPreyModel"
    /\ lv_ret.status = "raised" /\ lv_ret.error = "ValueError"
    /\ x0 = <<Prey.population, Predator.population>>
    /\ parameters = make_parameters(Prey, Predator)

\* C9 (as stated): both endpoints (I1, I2) of the line drawn by plot_budget
\* lie on the budget constraint p1*I1 + p2*I2 = budget (p1 the price of
\* Item1 on the x axis, p2 the price of Item2 on the y axis), and the second
\* endpoint has I2 = 0.
C9_BudgetLineOnConstraint ==
    (obj = "Consumer" /\ line.status = "returned") =>
        LET I1 == line.value[1]
            I2 == line.value[2]
        IN  /\ \A k \in 1..2 :
                 RAdd(RMul(Item1.price, I1[k]), RMul(Item2.price, I2[k])) = budget
            /\ I2[2] = Zero

\* C10: started at the coexistence equilibrium prey[0] = gamma/delta,
\* predator[0] = alpha/beta (all rates positive), every element of the trace
\* equals the initial populations.
C10_EquilibriumIsFixedPoint ==
    (/\ LvReturned
     /\ \A r \in {Alpha, Beta, Delta, Gamma} : IsPositive(r)
     /\ x0[1] = RDiv(Gamma, Delta)
     /\ x0[2] = RDiv(Alpha, Beta)) =>
        \A i \in 1..Len(TracePrey) :
            TracePrey[i] = x0[1] /\ TracePredator[i] = x0[2]

\* a 3-point trace started at the equilibrium (1/2, 1/2) of alpha = 1,
\* beta = 2, delta = 2, gamma = 1
C10_Witness ==
    /\ LvReturned /\ Len(TracePrey) = 3
    /\ Alpha = One /\ Beta = FromInt(2) /\ Delta = FromInt(2) /\ Gamma = One
    /\ x0 = <<Rat(1, 2), Rat(1, 2)>>

RECURSIVE GeoSeries(_, _)
\* 1 + q + q^2 + ... + q^k, in Horner form
GeoSeries(q, k) == IF k = 0 THEN One ELSE RAdd(One, RMul(q, GeoSeries(q, k - 1)))

\* a <= b
RLeq(a, b) == RSub(b, a)[1] >= 0

\* C11: for d0 >= 0, 0 < r <= 1 and N >= 0 banks, the list computed by
\* sum_of_deposits has N + 1 entries, entry k is d0 * sum_{i=0..k} (1-r)^i,
\* the entries are non-decreasing, and none exceeds d0 times the money
\* multiplier 1/r that Reserve.multiplier reports.
C11_CumulativeDeposits ==
    (/\ obj = "Reserve" /\ deposits.status = "returned"
     /\ res_d0[1] >= 0 /\ res_r[1] > 0 /\ RLeq(res_r, One)) =>
        LET L == deposits.value
        IN  /\ Len(L) = res_i + 1
            /\ \A k \in 0..res_i :
                  L[k + 1] = RMul(res_d0, GeoSeries(RSub(One, res_r), k))
            /\ \A k \in 1..res_i : RLeq(L[k], L[k + 1])
            /\ \A k \in 1..Len(L) : RLeq(L[k], RMul(res_d0, RDiv(One, res_r)))
            /\ printed.status # "raised"
            /\ printed.status = "returned" =>
                  /\ printed.value = RDiv(One, res_r)
                  /\ \A k \in 1..Len(L) : RLeq(L[k], RMul(res_d0, printed.value))

\* deposits of 500 at reserve ratio 0.05 over the largest number of banks:
\* the list was computed, strictly grew, and the multiplier 20 was reported
C11_Witness ==
    /\ obj = "Reserve" /\ deposits.status = "returned" /\ printed.status = "returned"
    /\ res_d0 = FromInt(500) /\ res_r = Rat(1, 20) /\ res_i = MaxBanks
    /\ printed.value = FromInt(20)
    /\ deposits.value[Len(deposits.value)] # deposits.value[1]

====
